---------------------------- MODULE Spec2Model ----------------------------
(***************************************************************************)
(* A model of the tesla-video-backend store (server/db.ts) and of its tRPC *)
(* router (server/routers.ts): the users, telegram_sessions, videos and    *)
(* download_queue tables, the store functions over them, and the auth and  *)
(* videos procedures.                                                      *)
(*                                                                         *)
(* Time is counted in units of ten minutes, the lifetime of an auth token. *)
(* Every action leaves in `last` the call it made and what the caller got  *)
(* back (the returned value or the thrown error code, and the cookie the   *)
(* response carries).                                                      *)
(***************************************************************************)
EXTENDS Integers, FiniteSets, Sequences, TLC

\* ------------------------------------------------------------------ bounds
MaxTime == 2
MaxTokens == 1
MaxUsers == 2
MaxTgIds == 1
MaxVideos == 2
MaxQueue == 2

\* ------------------------------------------------------- program constants
\* 10 * 60 * 1000 ms, in units of ten minutes
TokenTTL == 1

\* SQL NULL / JS undefined in an integer column or argument (ids start at 1)
NULL == 0
\* SQL NULL in a text column
NONE == "<null>"

Tokens == 1..MaxTokens
UserIds == 1..MaxUsers
TgIds == 1..MaxTgIds
VideoIds == 1..MaxVideos
QueueIds == 1..MaxQueue

\* `telegram_${telegramUserId}`: a null id interpolates as "telegram_null"
TelegramOpenId(telegramUserId) == <<"telegram", telegramUserId>>
\* an openId that is not derived from a Telegram id
OtherOpenId == <<"oauth", 1>>
\* "" (or a missing openId)
EmptyOpenId == <<>>
\* ENV.ownerOpenId
OwnerOpenId == OtherOpenId

VARIABLES
    dbAvailable,   \* getDb() returns a handle (DATABASE_URL is set)
    now,           \* the clock read by new Date() / Date.now()
    users,         \* users table: id -> row
    sessions,      \* telegram_sessions table: authToken -> row
    videos,        \* videos table: id -> row
    nextVideoId,   \* videos AUTO_INCREMENT counter
    downloadQueue, \* download_queue table: id -> row
    pc,            \* where each worker and each videos.delete request stands
    last           \* the last call: what was asked and what came back

vars == <<dbAvailable, now, users, sessions, videos, nextVideoId,
          downloadQueue, pc, last>>

\* the download workers that poll the queue, and the clients whose
\* videos.delete requests are in flight at the same time
Workers == { "worker1", "worker2" }
Clients == { "client1", "client2" }
\* between two calls
Idle == [at |-> "idle"]

tables == <<users, sessions, videos, downloadQueue>>

\* a select that matched no row
Undefined == [id |-> NULL]
NoCookie == [openId |-> EmptyOpenId]

\* applies a Partial<Row> to a row: the supplied columns are overwritten
Patch(row, updates) ==
    [f \in DOMAIN row |-> IF f \in DOMAIN updates THEN updates[f] ELSE row[f]]

\* a column that a Partial<Row> leaves out, or sets to one of the values V
Opt(col, V) == { <<>> } \cup { col :> v : v \in V }

\* what a procedure hands back: a value, or a thrown error code
Ok(op, arg, value, cookie) ==
    [op |-> op, arg |-> arg, outcome |-> "ok", value |-> value, cookie |-> cookie]
Err(op, arg, code) ==
    [op |-> op, arg |-> arg, outcome |-> code, value |-> NULL, cookie |-> NoCookie]

\* --------------------------------------------------------------- db.ts
getDb == dbAvailable

getUserByOpenId(openId) ==
    IF ~getDb THEN Undefined
    ELSE IF \E i \in DOMAIN users : users[i].openId = openId
         THEN users[CHOOSE i \in DOMAIN users : users[i].openId = openId]
         ELSE Undefined

getTelegramSessionByToken(authToken) ==
    IF ~getDb THEN Undefined
    ELSE IF authToken \in DOMAIN sessions THEN sessions[authToken]
         ELSE Undefined

\* users: the columns of a row and their defaults
UserDefaults ==
    [name |-> NONE, email |-> NONE, loginMethod |-> NONE, role |-> "user"]

\* faulty variant of upsertValues: a null is taken for a field left out
upsertValuesSkippingNull(user) ==
    LET text == { f \in {"name", "email", "loginMethod"} \cap DOMAIN user :
                    user[f] # NONE }
        lsi  == {"lastSignedIn"} \cap DOMAIN user
        role == IF "role" \in DOMAIN user THEN [role |-> user.role]
                ELSE IF user.openId = OwnerOpenId THEN [role |-> "admin"]
                ELSE <<>>
    IN  [f \in text \cup lsi |-> user[f]] @@ role

upsertValues(user) ==
    LET text == {"name", "email", "loginMethod"} \cap DOMAIN user
        lsi  == {"lastSignedIn"} \cap DOMAIN user
        role == IF "role" \in DOMAIN user THEN [role |-> user.role]
                ELSE IF user.openId = OwnerOpenId THEN [role |-> "admin"]
                ELSE <<>>
    IN  [f \in text \cup lsi |-> user[f]] @@ role

\* faulty variant of upsertUser: the database handle is looked at before the
\* openId
upsertUserDbFirst(user) ==
    IF ~getDb
    THEN /\ last' = Ok("upsertUser", user, NULL, NoCookie)
         /\ UNCHANGED users
    ELSE IF "openId" \notin DOMAIN user \/ user.openId = EmptyOpenId
    THEN /\ last' = Err("upsertUser", user, "ERROR")
         /\ UNCHANGED users
    ELSE LET updateSet0 == upsertValues(user)
             values == updateSet0 @@ [openId |-> user.openId, lastSignedIn |-> now]
             updateSet == IF DOMAIN updateSet0 = {}
                          THEN [lastSignedIn |-> now] ELSE updateSet0
             hit == { i \in DOMAIN users : users[i].openId = user.openId }
         IN  /\ IF hit # {}
                THEN users' = [i \in DOMAIN users |->
                                 IF i \in hit THEN Patch(users[i], updateSet)
                                 ELSE users[i]]
                ELSE /\ Cardinality(DOMAIN users) < MaxUsers
                     /\ LET id == Cardinality(DOMAIN users) + 1
                        IN users' = users @@
                             (id :> ([id |-> id] @@ values @@ UserDefaults))
             /\ last' = Ok("upsertUser", user, NULL, NoCookie)

\* faulty variant of upsertUser: a plain insert, with no unique key on
\* openId to turn it into an update
upsertUserInserting(user) ==
    IF "openId" \notin DOMAIN user \/ user.openId = EmptyOpenId
    THEN /\ last' = Err("upsertUser", user, "ERROR")
         /\ UNCHANGED users
    ELSE IF ~getDb
    THEN /\ last' = Ok("upsertUser", user, NULL, NoCookie)
         /\ UNCHANGED users
    ELSE LET values == upsertValues(user)
                         @@ [openId |-> user.openId, lastSignedIn |-> now]
             id == Cardinality(DOMAIN users) + 1
         IN  /\ Cardinality(DOMAIN users) < MaxUsers
             /\ users' = users @@
                  (id :> ([id |-> id] @@ values @@ UserDefaults))
             /\ last' = Ok("upsertUser", user, NULL, NoCookie)

upsertUser(user) ==
    IF "openId" \notin DOMAIN user \/ user.openId = EmptyOpenId
    THEN /\ last' = Err("upsertUser", user, "ERROR")
         /\ UNCHANGED users
    ELSE IF ~getDb
    THEN /\ last' = Ok("upsertUser", user, NULL, NoCookie)
         /\ UNCHANGED users
    ELSE LET updateSet0 == upsertValues(user)
             values == updateSet0 @@ [openId |-> user.openId, lastSignedIn |-> now]
             updateSet == IF DOMAIN updateSet0 = {}
                          THEN [lastSignedIn |-> now] ELSE updateSet0
             hit == { i \in DOMAIN users : users[i].openId = user.openId }
         IN  /\ IF hit # {}
                THEN users' = [i \in DOMAIN users |->
                                 IF i \in hit THEN Patch(users[i], updateSet)
                                 ELSE users[i]]
                ELSE /\ Cardinality(DOMAIN users) < MaxUsers
                     /\ LET id == Cardinality(DOMAIN users) + 1
                        IN users' = users @@
                             (id :> ([id |-> id] @@ values @@ UserDefaults))
             /\ last' = Ok("upsertUser", user, NULL, NoCookie)

\* telegram_sessions: the columns a new row takes from their defaults
SessionDefaults ==
    [telegramUserId |-> NULL, telegramUsername |-> NONE, userId |-> NULL,
     verified |-> FALSE]

\* the insert of createTelegramSession: authToken is UNIQUE
insertTelegramSession(session) ==
    sessions' = sessions @@
        (session.authToken :>
            (session @@ [id |-> Cardinality(DOMAIN sessions) + 1,
                         createdAt |-> now] @@ SessionDefaults))

\* userId REFERENCES users(id)
SessionForeignKeyOk(updates) ==
    "userId" \in DOMAIN updates =>
        (updates.userId = NULL \/ updates.userId \in DOMAIN users)

updateTelegramSession(authToken, updates) ==
    IF ~getDb \/ ~SessionForeignKeyOk(updates)
    THEN /\ last' = Err("updateTelegramSession", authToken, "ERROR")
         /\ UNCHANGED sessions
    ELSE /\ sessions' = [t \in DOMAIN sessions |->
                           IF t = authToken THEN Patch(sessions[t], updates)
                           ELSE sessions[t]]
         /\ last' = Ok("updateTelegramSession", authToken, NULL, NoCookie)

\* videos: a row is owned by userId REFERENCES users(id); the text columns
\* (title, fileKey, fileUrl, ...) are carried by the row but read by nothing
\* here
createVideo(video) ==
    IF ~getDb \/ video.userId \notin DOMAIN users
    THEN /\ last' = Err("createVideo", NULL, "ERROR")
         /\ UNCHANGED <<videos, nextVideoId>>
    ELSE /\ nextVideoId <= MaxVideos
         /\ videos' = videos @@
              (nextVideoId :>
                 (video @@ [id |-> nextVideoId, status |-> "downloading",
                            createdAt |-> now]))
         /\ nextVideoId' = nextVideoId + 1
         /\ last' = Ok("createVideo", NULL, nextVideoId, NoCookie)

\* the orders in which a select hands back the rows ids of a table under
\* ORDER BY createdAt (descending if desc): rows with the same createdAt come
\* in either order
OrderByCreatedAt(table, ids, desc) ==
    LET n == Cardinality(ids)
        sorted(s) ==
            \A i, j \in 1..n :
                i < j => /\ s[i] # s[j]
                         /\ IF desc
                            THEN table[s[i]].createdAt >= table[s[j]].createdAt
                            ELSE table[s[i]].createdAt <= table[s[j]].createdAt
    IN  { [i \in 1..n |-> table[s[i]]] : s \in { s \in [1..n -> ids] : sorted(s) } }

\* faulty variant of getUserVideos: the status filter is left out
getUserVideosAnyStatus(userId) ==
    IF ~getDb THEN { <<>> }
    ELSE OrderByCreatedAt(videos,
            { v \in DOMAIN videos : videos[v].userId = userId }, TRUE)

\* the results getUserVideos may hand back
getUserVideos(userId) ==
    IF ~getDb THEN { <<>> }
    ELSE OrderByCreatedAt(videos,
            { v \in DOMAIN videos :
                videos[v].userId = userId /\ videos[v].status = "ready" }, TRUE)

\* faulty variant of getVideoById: the owner filter is left out
getVideoByIdAnyOwner(videoId, userId) ==
    IF ~getDb THEN Undefined
    ELSE IF videoId \in DOMAIN videos THEN videos[videoId]
         ELSE Undefined

getVideoById(videoId, userId) ==
    IF ~getDb THEN Undefined
    ELSE IF videoId \in DOMAIN videos /\ videos[videoId].userId = userId
         THEN videos[videoId]
         ELSE Undefined

updateVideo(videoId, updates) ==
    IF ~getDb
    THEN /\ last' = Err("updateVideo", NULL, "ERROR")
         /\ UNCHANGED videos
    ELSE /\ videos' = [v \in DOMAIN videos |->
                         IF v = videoId THEN Patch(videos[v], updates)
                         ELSE videos[v]]
         /\ last' = Ok("updateVideo", NULL, NULL, NoCookie)

\* download_queue.videoId REFERENCES videos(id) ON DELETE no action
VideoReferenced(videoId) ==
    \E q \in DOMAIN downloadQueue : downloadQueue[q].videoId = videoId

\* the rows that where(and(eq(videos.id, videoId), eq(videos.userId, userId)))
\* matches
deleteVideoHit(videoId, userId) ==
    { v \in DOMAIN videos : v = videoId /\ videos[v].userId = userId }

\* deleteVideo throws: no database handle, or a matched row is still
\* referenced
deleteVideoThrows(videoId, userId) ==
    ~getDb \/ \E v \in deleteVideoHit(videoId, userId) : VideoReferenced(v)

\* the delete of deleteVideo
deleteFromVideos(videoId, userId) ==
    videos' = [v \in DOMAIN videos \ deleteVideoHit(videoId, userId) |->
                 videos[v]]

deleteVideo(videoId, userId) ==
    IF deleteVideoThrows(videoId, userId)
    THEN /\ last' = Err("deleteVideo", NULL, "ERROR")
         /\ UNCHANGED videos
    ELSE /\ deleteFromVideos(videoId, userId)
         /\ last' = Ok("deleteVideo", NULL, NULL, NoCookie)

\* download_queue: userId REFERENCES users(id), videoId REFERENCES
\* videos(id)
QueueForeignKeysOk(row) ==
    /\ "userId" \in DOMAIN row => row.userId \in DOMAIN users
    /\ "videoId" \in DOMAIN row =>
          (row.videoId = NULL \/ row.videoId \in DOMAIN videos)

QueueDefaults == [errorMessage |-> NONE, videoId |-> NULL]

\* the insert of createDownloadRequest; result[0].insertId is the new id
insertDownloadRequest(request) ==
    LET id == Cardinality(DOMAIN downloadQueue) + 1
    IN  downloadQueue' = downloadQueue @@
          (id :> (request @@ [id |-> id, createdAt |-> now] @@ QueueDefaults))

getDownloadRequest(requestId) ==
    IF ~getDb THEN Undefined
    ELSE IF requestId \in DOMAIN downloadQueue THEN downloadQueue[requestId]
         ELSE Undefined

\* faulty variant of updateDownloadRequest: only the status is written
updateDownloadRequestStatusOnly(requestId, updates) ==
    IF ~getDb \/ ~QueueForeignKeysOk(updates)
    THEN /\ last' = Err("updateDownloadRequest",
                         [requestId |-> requestId, updates |-> updates],
                         "ERROR")
         /\ UNCHANGED downloadQueue
    ELSE /\ downloadQueue' = [q \in DOMAIN downloadQueue |->
                                IF q = requestId /\ "status" \in DOMAIN updates
                                THEN Patch(downloadQueue[q],
                                           [status |-> updates.status])
                                ELSE downloadQueue[q]]
         /\ last' = Ok("updateDownloadRequest",
                       [requestId |-> requestId, updates |-> updates],
                       NULL, NoCookie)

\* faulty variant of updateDownloadRequest: an entry is moved to processing
\* only if it is pending
updateDownloadRequestIfPending(requestId, updates) ==
    LET call == [requestId |-> requestId, updates |-> updates]
        taken == /\ "status" \in DOMAIN updates
                 /\ updates.status = "processing"
                 /\ requestId \in DOMAIN downloadQueue
                 /\ downloadQueue[requestId].status # "pending"
    IN  IF ~getDb \/ ~QueueForeignKeysOk(updates)
        THEN /\ last' = Err("updateDownloadRequest", call, "ERROR")
             /\ UNCHANGED downloadQueue
        ELSE IF taken
        THEN /\ last' = Err("updateDownloadRequest", call, "CONFLICT")
             /\ UNCHANGED downloadQueue
        ELSE /\ downloadQueue' = [q \in DOMAIN downloadQueue |->
                                    IF q = requestId
                                    THEN Patch(downloadQueue[q], updates)
                                    ELSE downloadQueue[q]]
             /\ last' = Ok("updateDownloadRequest", call, NULL, NoCookie)

updateDownloadRequest(requestId, updates) ==
    IF ~getDb \/ ~QueueForeignKeysOk(updates)
    THEN /\ last' = Err("updateDownloadRequest",
                         [requestId |-> requestId, updates |-> updates],
                         "ERROR")
         /\ UNCHANGED downloadQueue
    ELSE /\ downloadQueue' = [q \in DOMAIN downloadQueue |->
                                IF q = requestId
                                THEN Patch(downloadQueue[q], updates)
                                ELSE downloadQueue[q]]
         /\ last' = Ok("updateDownloadRequest",
                       [requestId |-> requestId, updates |-> updates],
                       NULL, NoCookie)

\* faulty variant of getPendingDownloads: newest first
getPendingDownloadsNewestFirst ==
    IF ~getDb THEN { <<>> }
    ELSE OrderByCreatedAt(downloadQueue,
            { q \in DOMAIN downloadQueue :
                downloadQueue[q].status = "pending" }, TRUE)

\* the results getPendingDownloads may hand back
getPendingDownloads ==
    IF ~getDb THEN { <<>> }
    ELSE OrderByCreatedAt(downloadQueue,
            { q \in DOMAIN downloadQueue :
                downloadQueue[q].status = "pending" }, FALSE)

\* ------------------------------------------------------------ routers.ts
\* faulty variants of Expired: the expiry check off by one, and left out
ExpiredOffByOne(session) == session.expiresAt + 1 < now
ExpiredNever(session) == FALSE

\* session.expiresAt < new Date()
Expired(session) == session.expiresAt < now

logout ==
    /\ last' = Ok("logout", NULL, [success |-> TRUE], NoCookie)
    /\ UNCHANGED tables

\* faulty variant of generateAuthToken: authToken is not UNIQUE
generateAuthTokenNotUnique(authToken) ==
    LET expiresAt == now + TokenTTL
        session == [authToken |-> authToken, expiresAt |-> expiresAt,
                    verified |-> FALSE]
    IN  /\ IF ~getDb
           THEN /\ last' = Err("generateAuthToken", NULL, "ERROR")
                /\ UNCHANGED sessions
           ELSE /\ insertTelegramSession(session)
                /\ last' = Ok("generateAuthToken", NULL,
                              [authToken |-> authToken], NoCookie)
        /\ UNCHANGED <<users, videos, downloadQueue>>

\* faulty variant of generateAuthToken: the token lives twice as long
generateAuthTokenLongLived(authToken) ==
    LET expiresAt == now + 2 * TokenTTL
        session == [authToken |-> authToken, expiresAt |-> expiresAt,
                    verified |-> FALSE]
    IN  /\ IF ~getDb \/ authToken \in DOMAIN sessions
           THEN /\ last' = Err("generateAuthToken", NULL, "ERROR")
                /\ UNCHANGED sessions
           ELSE /\ insertTelegramSession(session)
                /\ last' = Ok("generateAuthToken", NULL,
                              [authToken |-> authToken], NoCookie)
        /\ UNCHANGED <<users, videos, downloadQueue>>

generateAuthToken(authToken) ==
    LET expiresAt == now + TokenTTL
        session == [authToken |-> authToken, expiresAt |-> expiresAt,
                    verified |-> FALSE]
    IN  /\ IF ~getDb \/ authToken \in DOMAIN sessions
           THEN /\ last' = Err("generateAuthToken", NULL, "ERROR")
                /\ UNCHANGED sessions
           ELSE /\ insertTelegramSession(session)
                /\ last' = Ok("generateAuthToken", NULL,
                              [authToken |-> authToken], NoCookie)
        /\ UNCHANGED <<users, videos, downloadQueue>>

\* faulty variant of checkAuthStatusReply: an unverified session is refused
checkAuthStatusReplyStrict(authToken) ==
    LET session == getTelegramSessionByToken(authToken)
    IN  IF session = Undefined
        THEN Err("checkAuthStatus", authToken, "NOT_FOUND")
        ELSE IF Expired(session) \/ ~session.verified
        THEN Err("checkAuthStatus", authToken, "UNAUTHORIZED")
        ELSE Ok("checkAuthStatus", authToken,
                [verified |-> session.verified, userId |-> session.userId,
                 telegramUsername |-> session.telegramUsername], NoCookie)

\* what checkAuthStatus answers in the current state
checkAuthStatusReply(authToken) ==
    LET session == getTelegramSessionByToken(authToken)
    IN  IF session = Undefined
        THEN Err("checkAuthStatus", authToken, "NOT_FOUND")
        ELSE IF Expired(session)
        THEN Err("checkAuthStatus", authToken, "UNAUTHORIZED")
        ELSE Ok("checkAuthStatus", authToken,
                [verified |-> session.verified, userId |-> session.userId,
                 telegramUsername |-> session.telegramUsername], NoCookie)

\* faulty variant of checkAuthStatus: a poll that marks the session as seen
checkAuthStatusTouching(authToken) ==
    /\ last' = checkAuthStatusReply(authToken)
    /\ sessions' = [t \in DOMAIN sessions |->
                      IF t = authToken
                      THEN Patch(sessions[t], [telegramUsername |-> "seen"])
                      ELSE sessions[t]]
    /\ UNCHANGED <<users, videos, downloadQueue>>

checkAuthStatus(authToken) ==
    /\ last' = checkAuthStatusReply(authToken)
    /\ UNCHANGED tables

\* faulty variant of LoginRejects: the linked user is not required
LoginRejectsUnverifiedOnly(session) ==
    session = Undefined \/ ~session.verified

\* !session || !session.verified || !session.userId
LoginRejects(session) ==
    session = Undefined \/ ~session.verified \/ session.userId = NULL

\* name: user.name || session.telegramUsername || "User"
CredentialName(user, session) ==
    IF user.name # NONE THEN user.name
    ELSE IF session.telegramUsername # NONE THEN session.telegramUsername
    ELSE "User"

\* the user whose openId goes into the session credential
LoginUser(session) == getUserByOpenId(TelegramOpenId(session.telegramUserId))

\* what loginWithTelegram answers in the current state, with the cookie it sets
loginWithTelegramReply(authToken) ==
    LET session == getTelegramSessionByToken(authToken)
    IN  IF LoginRejects(session)
        THEN Err("loginWithTelegram", authToken, "UNAUTHORIZED")
        ELSE IF Expired(session)
        THEN Err("loginWithTelegram", authToken, "UNAUTHORIZED")
        ELSE LET user == LoginUser(session)
             IN  IF user = Undefined
                 THEN Err("loginWithTelegram", authToken, "NOT_FOUND")
                 ELSE Ok("loginWithTelegram", authToken,
                         [success |-> TRUE, userId |-> session.userId],
                         [openId |-> user.openId,
                          name |-> CredentialName(user, session)])

\* faulty variant of loginWithTelegram: a successful login consumes the
\* token
loginWithTelegramOnce(authToken) ==
    /\ last' = loginWithTelegramReply(authToken)
    /\ sessions' = [t \in DOMAIN sessions |->
                      IF t = authToken /\ last'.outcome = "ok"
                      THEN Patch(sessions[t], [verified |-> FALSE])
                      ELSE sessions[t]]
    /\ UNCHANGED <<users, videos, downloadQueue>>

loginWithTelegram(authToken) ==
    /\ last' = loginWithTelegramReply(authToken)
    /\ UNCHANGED tables

\* strings that get parsed are written as the sequence of their characters
Alpha == { "a", "b", "c", "e", "h", "p", "s", "t", "y" }
SchemeChars == Alpha \cup { "+", "-", "." }
Slashes == { "/", "\\" }
\* the schemes whose URLs must name a host
SpecialSchemes ==
    { <<"h", "t", "t", "p">>, <<"h", "t", "t", "p", "s">>,
      <<"f", "t", "p">>, <<"w", "s">>, <<"w", "s", "s">> }

\* faulty variant of zUrl: z.string() without .url()
zString(s) == TRUE

\* z.string().url(): new URL(s) does not throw. Without a base the string
\* must start with a scheme (a letter, then letters, digits, "+", "-", "."),
\* then ":"; after a special scheme and any slashes a host must follow
zUrl(s) ==
    \E i \in 2..Len(s) :
        /\ s[i] = ":"
        /\ s[1] \in Alpha
        /\ \A k \in 2..(i - 1) : s[k] \in SchemeChars
        /\ SubSeq(s, 1, i - 1) \in SpecialSchemes =>
              \E k \in (i + 1)..Len(s) :
                  /\ s[k] \in Alpha
                  /\ \A j \in (i + 1)..(k - 1) : s[j] \in Slashes

\* faulty variant of protectedProcedure: anyone may call
publicProcedure(ctxUser) == TRUE

\* protectedProcedure: a call without an authenticated user is refused
protectedProcedure(ctxUser) == ctxUser # NULL

\* faulty variant of requestDownload: a userId in the input is taken for the
\* owner
requestDownloadTrustingInput(ctxUser, input) ==
    LET call == [ctxUser |-> ctxUser, youtubeUrl |-> input.youtubeUrl]
        request == [userId |-> IF "userId" \in DOMAIN input THEN input.userId
                               ELSE ctxUser,
                    youtubeUrl |-> input.youtubeUrl, status |-> "pending"]
    IN  /\ IF ~protectedProcedure(ctxUser)
           THEN /\ last' = Err("requestDownload", call, "UNAUTHORIZED")
                /\ UNCHANGED downloadQueue
           ELSE IF ~zUrl(input.youtubeUrl)
           THEN /\ last' = Err("requestDownload", call, "BAD_REQUEST")
                /\ UNCHANGED downloadQueue
           ELSE IF ~getDb \/ ~QueueForeignKeysOk(request)
           THEN /\ last' = Err("requestDownload", call, "ERROR")
                /\ UNCHANGED downloadQueue
           ELSE /\ Cardinality(DOMAIN downloadQueue) < MaxQueue
                /\ insertDownloadRequest(request)
                /\ last' = Ok("requestDownload", call,
                              [requestId |-> Cardinality(DOMAIN downloadQueue) + 1,
                               status |-> "pending"], NoCookie)
        /\ UNCHANGED <<users, sessions, videos>>

\* videos.requestDownload of input, called by ctxUser (NULL: not signed
\* in); input.youtubeId, any string, is stored and read by nothing here
requestDownload(ctxUser, input) ==
    LET call == [ctxUser |-> ctxUser, youtubeUrl |-> input.youtubeUrl]
        request == [userId |-> ctxUser, youtubeUrl |-> input.youtubeUrl,
                    status |-> "pending"]
    IN  /\ IF ~protectedProcedure(ctxUser)
           THEN /\ last' = Err("requestDownload", call, "UNAUTHORIZED")
                /\ UNCHANGED downloadQueue
           ELSE IF ~zUrl(input.youtubeUrl)
           THEN /\ last' = Err("requestDownload", call, "BAD_REQUEST")
                /\ UNCHANGED downloadQueue
           ELSE IF ~getDb \/ ~QueueForeignKeysOk(request)
           THEN /\ last' = Err("requestDownload", call, "ERROR")
                /\ UNCHANGED downloadQueue
           ELSE /\ Cardinality(DOMAIN downloadQueue) < MaxQueue
                /\ insertDownloadRequest(request)
                /\ last' = Ok("requestDownload", call,
                              [requestId |-> Cardinality(DOMAIN downloadQueue) + 1,
                               status |-> "pending"], NoCookie)
        /\ UNCHANGED <<users, sessions, videos>>

\* videos.list, called by ctxUser (NULL: not signed in)
videosList(ctxUser) ==
    /\ IF ~protectedProcedure(ctxUser)
       THEN last' = Err("videos.list", ctxUser, "UNAUTHORIZED")
       ELSE \E result \in getUserVideos(ctxUser) :
               last' = Ok("videos.list", ctxUser, result, NoCookie)
    /\ UNCHANGED tables

\* videos.get of input.videoId, called by ctxUser
videosGet(ctxUser, videoId) ==
    LET call == [ctxUser |-> ctxUser, videoId |-> videoId]
        video == getVideoById(videoId, ctxUser)
    IN  /\ IF ~protectedProcedure(ctxUser)
           THEN last' = Err("videos.get", call, "UNAUTHORIZED")
           ELSE IF video = Undefined
           THEN last' = Err("videos.get", call, "NOT_FOUND")
           ELSE last' = Ok("videos.get", call, video, NoCookie)
        /\ UNCHANGED tables

\* videos.delete of input.videoId, called by ctxUser, run from call to reply
\* with no other request in between
videosDelete(ctxUser, videoId) ==
    LET call == [ctxUser |-> ctxUser, videoId |-> videoId]
        video == getVideoById(videoId, ctxUser)
    IN  /\ IF ~protectedProcedure(ctxUser)
           THEN /\ last' = Err("videos.delete", call, "UNAUTHORIZED")
                /\ UNCHANGED videos
           ELSE IF video = Undefined
           THEN /\ last' = Err("videos.delete", call, "NOT_FOUND")
                /\ UNCHANGED videos
           ELSE IF deleteVideoThrows(videoId, ctxUser)
           THEN /\ last' = Err("videos.delete", call, "ERROR")
                /\ UNCHANGED videos
           ELSE /\ deleteFromVideos(videoId, ctxUser)
                /\ last' = Ok("videos.delete", call, [success |-> TRUE],
                              NoCookie)
        /\ UNCHANGED <<users, sessions, downloadQueue>>

\* videos.delete as it runs next to other requests, in the two steps its
\* awaits make. First step, up to `await getVideoById`: the request of client
\* is refused, or has found its video and goes on
videosDeleteRead(client, ctxUser, videoId) ==
    LET call == [ctxUser |-> ctxUser, videoId |-> videoId]
        video == getVideoById(videoId, ctxUser)
    IN  /\ pc[client] = Idle
        /\ IF ~protectedProcedure(ctxUser)
           THEN /\ last' = Err("videos.delete", call, "UNAUTHORIZED")
                /\ UNCHANGED pc
           ELSE IF video = Undefined
           THEN /\ last' = Err("videos.delete", call, "NOT_FOUND")
                /\ UNCHANGED pc
           ELSE /\ last' = Ok("getVideoById", call, video, NoCookie)
                /\ pc' = [pc EXCEPT ![client] =
                            [at |-> "deleting", ctxUser |-> ctxUser,
                             videoId |-> videoId]]
        /\ UNCHANGED tables

\* second step, `await deleteVideo` and the reply: whatever the delete
\* matched, the reply is {success: true}
videosDeleteWrite(client) ==
    LET ctxUser == pc[client].ctxUser
        videoId == pc[client].videoId
        call == [ctxUser |-> ctxUser, videoId |-> videoId]
    IN  /\ pc[client].at = "deleting"
        /\ IF deleteVideoThrows(videoId, ctxUser)
           THEN /\ last' = Err("videos.delete", call, "ERROR")
                /\ UNCHANGED videos
           ELSE /\ deleteFromVideos(videoId, ctxUser)
                /\ last' = Ok("videos.delete", call, [success |-> TRUE],
                              NoCookie)
        /\ pc' = [pc EXCEPT ![client] = Idle]
        /\ UNCHANGED <<users, sessions, downloadQueue>>

Tick ==
    /\ now < MaxTime
    /\ now' = now + 1
    /\ last' = Ok("tick", NULL, NULL, NoCookie)
    /\ UNCHANGED <<pc, dbAvailable, tables, nextVideoId>>

\* --------------------------------------------------------- specifications
\* the state after construction: an empty store
Init ==
    /\ dbAvailable \in BOOLEAN
    /\ now = 0
    /\ users = <<>>
    /\ sessions = <<>>
    /\ videos = <<>>
    /\ nextVideoId = 1
    /\ downloadQueue = <<>>
    /\ pc = [p \in Workers \cup Clients |-> Idle]
    /\ last = Ok("init", NULL, NULL, NoCookie)

\* the openIds users sign up with, in the order they sign up
SignUps == <<OtherOpenId>> \o [g \in TgIds |-> TelegramOpenId(g)]

\* a users row as upsertUser({openId, name}) inserts it at time 0
UserRow(id, openId, name) ==
    [id |-> id, openId |-> openId, name |-> name, email |-> NONE,
     loginMethod |-> NONE,
     role |-> IF openId = OwnerOpenId THEN "admin" ELSE "user",
     lastSignedIn |-> 0]

\* the display name each sign-up gave, if any
SignUpName(openId) == IF openId = OtherOpenId THEN "Ann" ELSE NONE

\* the users tables the auth flow is run against: the first n sign-ups, at
\* time 0
UserTables ==
    { [i \in 1..n |-> UserRow(i, SignUps[i], SignUpName(SignUps[i]))] :
        n \in 0..(IF MaxUsers < Len(SignUps) THEN MaxUsers ELSE Len(SignUps)) }

UpsertUser(S) ==
    /\ \E user \in S : upsertUser(user)
    /\ UNCHANGED <<pc, dbAvailable, now, sessions, videos, nextVideoId,
                   downloadQueue>>

\* the upsertUser calls of the sign-ups
SignUpRequests ==
    { [openId |-> SignUps[i], name |-> SignUpName(SignUps[i])] :
        i \in DOMAIN SignUps }

NextUsers ==
    \/ UpsertUser(SignUpRequests)
    \/ Tick

\* the user directory on its own, from the empty store
SpecUsers == Init /\ [][NextUsers]_vars

InitAuth ==
    /\ dbAvailable \in BOOLEAN
    /\ now = 0
    /\ users \in { t \in UserTables : ~dbAvailable => t = <<>> }
    /\ sessions = <<>>
    /\ videos = <<>>
    /\ nextVideoId = 1
    /\ downloadQueue = <<>>
    /\ pc = [p \in Workers \cup Clients |-> Idle]
    /\ last = Ok("init", NULL, NULL, NoCookie)

\* the username of a Telegram account (an account need not have one)
TelegramUsername(telegramUserId) ==
    IF telegramUserId = 1 THEN "ann_tg" ELSE NONE

\* the partial rows written to a session: the verified flag, the Telegram
\* account (id and username, which come together), the linked user, or the
\* whole verification at once
SessionUpdates ==
    { "verified" :> b : b \in BOOLEAN }
    \cup { [telegramUserId |-> g, telegramUsername |-> TelegramUsername(g)] :
             g \in TgIds \cup { NULL } }
    \cup { "userId" :> u : u \in UserIds \cup { NULL } }
    \cup { [telegramUserId |-> g, telegramUsername |-> TelegramUsername(g),
            userId |-> u, verified |-> TRUE] : g \in TgIds, u \in UserIds }

UpdateTelegramSession ==
    /\ \E authToken \in Tokens, updates \in SessionUpdates :
          updateTelegramSession(authToken, updates)
    /\ UNCHANGED <<pc, dbAvailable, now, users, videos, nextVideoId,
                   downloadQueue>>

\* a generateAuthToken call whose nanoid(32) draws from the strings S
GenerateAuthTokenFrom(S) ==
    /\ \E authToken \in S : generateAuthToken(authToken)
    /\ UNCHANGED <<pc, dbAvailable, now, nextVideoId>>

GenerateAuthToken == GenerateAuthTokenFrom(Tokens)

CheckAuthStatus ==
    /\ \E authToken \in Tokens : checkAuthStatus(authToken)
    /\ UNCHANGED <<pc, dbAvailable, now, nextVideoId>>

LoginWithTelegram ==
    /\ \E authToken \in Tokens : loginWithTelegram(authToken)
    /\ UNCHANGED <<pc, dbAvailable, now, nextVideoId>>

Logout ==
    /\ logout
    /\ UNCHANGED <<pc, dbAvailable, now, nextVideoId>>

NextAuth ==
    \/ GenerateAuthToken
    \/ CheckAuthStatus
    \/ LoginWithTelegram
    \/ Logout
    \/ UpdateTelegramSession
    \/ Tick

SpecAuth == InitAuth /\ [][NextAuth]_vars

\* the queue is run with every sign-up done
InitQueue ==
    /\ dbAvailable \in BOOLEAN
    /\ now = 0
    /\ users \in { t \in UserTables :
                    IF dbAvailable THEN \A u \in UserTables : Len(u) <= Len(t)
                    ELSE t = <<>> }
    /\ sessions = <<>>
    /\ videos = <<>>
    /\ nextVideoId = 1
    /\ downloadQueue = <<>>
    /\ pc = [p \in Workers \cup Clients |-> Idle]
    /\ last = Ok("init", NULL, NULL, NoCookie)

\* the partial rows the download worker writes to a queue entry: a status,
\* the link to the video, or the completion with the link
QueueStatuses == { "pending", "processing", "completed", "failed" }
QueueUpdates ==
    { "status" :> st : st \in QueueStatuses }
    \cup { "videoId" :> v : v \in VideoIds \cup { NULL } }
    \cup { [status |-> "completed", videoId |-> v] : v \in VideoIds }

\* the partial rows the download worker writes to a video
VideoUpdates == { "status" :> st : st \in { "downloading", "ready", "failed" } }

\* the youtubeUrl strings sent: "https://yt.be/a", and as strings that are
\* no URL "yt.be/a" and "https://"
YoutubeUrls ==
    { <<"h", "t", "t", "p", "s", ":", "/", "/", "y", "t", ".", "b", "e", "/", "a">>,
      <<"y", "t", ".", "b", "e", "/", "a">>,
      <<"h", "t", "t", "p", "s", ":", "/", "/">> }

\* a videos.requestDownload call whose input is one of Inputs
RequestDownloadWith(Inputs) ==
    /\ \E ctxUser \in UserIds \cup { NULL }, input \in Inputs :
          requestDownload(ctxUser, input)
    /\ UNCHANGED <<pc, dbAvailable, now, nextVideoId>>

RequestDownload ==
    RequestDownloadWith({ [youtubeUrl |-> youtubeUrl] :
                            youtubeUrl \in YoutubeUrls })

UpdateDownloadRequest ==
    /\ \E requestId \in QueueIds, updates \in QueueUpdates :
          updateDownloadRequest(requestId, updates)
    /\ UNCHANGED <<pc, dbAvailable, now, users, sessions, videos, nextVideoId>>

CreateVideo ==
    /\ \E userId \in UserIds : createVideo([userId |-> userId])
    /\ UNCHANGED <<pc, dbAvailable, now, users, sessions, downloadQueue>>

UpdateVideo ==
    /\ \E videoId \in VideoIds, updates \in VideoUpdates :
          updateVideo(videoId, updates)
    /\ UNCHANGED <<pc, dbAvailable, now, users, sessions, nextVideoId,
                   downloadQueue>>

DeleteVideo ==
    /\ \E videoId \in VideoIds, userId \in UserIds :
          deleteVideo(videoId, userId)
    /\ UNCHANGED <<pc, dbAvailable, now, users, sessions, nextVideoId,
                   downloadQueue>>

NextQueue ==
    \/ RequestDownload
    \/ UpdateDownloadRequest
    \/ CreateVideo
    \/ UpdateVideo
    \/ DeleteVideo

SpecQueue == InitQueue /\ [][NextQueue]_vars

VideosList ==
    /\ \E ctxUser \in UserIds \cup { NULL } : videosList(ctxUser)
    /\ UNCHANGED <<pc, dbAvailable, now, nextVideoId>>

NextCatalog ==
    \/ CreateVideo
    \/ UpdateVideo
    \/ VideosList
    \/ Tick

\* the video catalog as its users list it while the worker fills it
SpecCatalog == InitQueue /\ [][NextCatalog]_vars

VideosGet ==
    /\ \E ctxUser \in UserIds \cup { NULL }, videoId \in VideoIds :
          videosGet(ctxUser, videoId)
    /\ UNCHANGED <<pc, dbAvailable, now, nextVideoId>>

VideosDelete ==
    /\ \E ctxUser \in UserIds \cup { NULL }, videoId \in VideoIds :
          videosDelete(ctxUser, videoId)
    /\ UNCHANGED <<pc, dbAvailable, now, nextVideoId>>

NextOwnership ==
    \/ CreateVideo
    \/ UpdateVideo
    \/ VideosGet
    \/ VideosDelete

\* the videos of several users, fetched and deleted by id
SpecOwnership == InitQueue /\ [][NextOwnership]_vars

GetDownloadRequest ==
    /\ \E requestId \in QueueIds :
          last' = Ok("getDownloadRequest", requestId,
                     getDownloadRequest(requestId), NoCookie)
    /\ UNCHANGED <<pc, dbAvailable, now, tables, nextVideoId>>

GetPendingDownloads ==
    /\ \E result \in getPendingDownloads :
          last' = Ok("getPendingDownloads", NULL, result, NoCookie)
    /\ UNCHANGED <<pc, dbAvailable, now, tables, nextVideoId>>

\* the download flow is run for the first user signed up
InitDownload ==
    /\ dbAvailable \in BOOLEAN
    /\ now = 0
    /\ users \in { t \in UserTables :
                    Len(t) = IF dbAvailable THEN 1 ELSE 0 }
    /\ sessions = <<>>
    /\ videos = <<>>
    /\ nextVideoId = 1
    /\ downloadQueue = <<>>
    /\ pc = [p \in Workers \cup Clients |-> Idle]
    /\ last = Ok("init", NULL, NULL, NoCookie)

NextDownload ==
    \/ RequestDownload
    \/ UpdateDownloadRequest
    \/ CreateVideo
    \/ GetDownloadRequest
    \/ GetPendingDownloads
    \/ VideosList

\* download requests from their submission to their completion by the worker
SpecDownload == InitDownload /\ [][NextDownload]_vars

NextPending ==
    \/ RequestDownload
    \/ UpdateDownloadRequest
    \/ GetPendingDownloads
    \/ Tick

\* the queue as the worker polls it over time
SpecPending == InitDownload /\ [][NextPending]_vars

\* the strings nanoid(32) draws when tokens are only issued: the tokens that
\* are presented elsewhere, and one more
NanoIds == 1..(MaxTokens + 1)

NextTokens ==
    \/ GenerateAuthTokenFrom(NanoIds)
    \/ CheckAuthStatus
    \/ Tick

\* tokens being issued and polled over time, from the empty store
SpecTokens == Init /\ [][NextTokens]_vars

\* the upsertUser calls made on the directory: for the owner's identity, a
\* Telegram identity or the empty one, with a name (left out, null or
\* given), a role (left out or given) and a lastSignedIn (left out or
\* given, as the start of time); and one call without an openId
Identities == { OwnerOpenId, TelegramOpenId(1), EmptyOpenId }
UpsertRequests ==
    { [openId |-> openId] @@ name @@ role @@ lastSignedIn :
        openId \in Identities,
        name \in Opt("name", { NONE, "Ann" }),
        role \in Opt("role", { "user", "admin" }),
        lastSignedIn \in Opt("lastSignedIn", { 0 }) }
    \cup { [name |-> "Ann"] }

NextDirectory ==
    \/ UpsertUser(UpsertRequests)
    \/ Tick

\* the user directory under arbitrary upserts, from the empty store
SpecDirectory == Init /\ [][NextDirectory]_vars

\* the inputs a client may send to videos.requestDownload: a youtubeUrl,
\* alone or with a userId of the client's choosing
DownloadInputs ==
    { [youtubeUrl |-> youtubeUrl] : youtubeUrl \in YoutubeUrls }
    \cup { [youtubeUrl |-> youtubeUrl, userId |-> userId] :
             youtubeUrl \in YoutubeUrls, userId \in UserIds }

NextEnqueue ==
    \/ RequestDownloadWith(DownloadInputs)
    \/ Tick

\* download requests as clients of every kind submit them
SpecEnqueue == InitQueue /\ [][NextEnqueue]_vars

\* a download worker asks for the pending entries and picks the first
WorkerPoll ==
    /\ \E w \in Workers, result \in getPendingDownloads :
          /\ pc[w] = Idle
          /\ last' = Ok("getPendingDownloads", NULL, result, NoCookie)
          /\ pc' = [pc EXCEPT ![w] =
                      IF result = <<>> THEN Idle
                      ELSE [at |-> "picked", requestId |-> result[1].id]]
    /\ UNCHANGED <<dbAvailable, now, tables, nextVideoId>>

\* the worker claims the entry it picked: it sets its status to processing
WorkerClaim ==
    /\ \E w \in Workers :
          /\ pc[w].at = "picked"
          /\ updateDownloadRequest(pc[w].requestId, [status |-> "processing"])
          /\ pc' = [pc EXCEPT ![w] =
                      IF last'.outcome = "ok"
                      THEN [at |-> "claimed", requestId |-> pc[w].requestId]
                      ELSE Idle]
    /\ UNCHANGED <<dbAvailable, now, users, sessions, videos, nextVideoId>>

\* the worker is done with the entry it claimed, one way or the other
WorkerFinish ==
    /\ \E w \in Workers, status \in { "completed", "failed" } :
          /\ pc[w].at = "claimed"
          /\ updateDownloadRequest(pc[w].requestId, [status |-> status])
          /\ pc' = [pc EXCEPT ![w] = Idle]
    /\ UNCHANGED <<dbAvailable, now, users, sessions, videos, nextVideoId>>

NextWorkers ==
    \/ RequestDownload
    \/ WorkerPoll
    \/ WorkerClaim
    \/ WorkerFinish

\* the queue as two download workers consume it side by side
SpecWorkers == InitDownload /\ [][NextWorkers]_vars

VideosDeleteRead ==
    /\ \E client \in Clients, ctxUser \in UserIds \cup { NULL },
          videoId \in VideoIds :
          videosDeleteRead(client, ctxUser, videoId)
    /\ UNCHANGED <<dbAvailable, now, nextVideoId>>

VideosDeleteWrite ==
    /\ \E client \in Clients : videosDeleteWrite(client)
    /\ UNCHANGED <<dbAvailable, now, nextVideoId>>

NextDeletes ==
    \/ CreateVideo
    \/ VideosDeleteRead
    \/ VideosDeleteWrite

\* videos.delete requests of several clients, running side by side
SpecDeletes == InitQueue /\ [][NextDeletes]_vars

\* ----------------------------------------------------------------- claims
\* the session row of a token, and its state, read off the table
HasSession(t) == t \in DOMAIN sessions
PastExpiry(t) == sessions[t].expiresAt < now
Linked(t) == sessions[t].userId # NULL
Usable(t) == HasSession(t) /\ sessions[t].verified /\ Linked(t) /\ ~PastExpiry(t)
IsLogin == last.op = "loginWithTelegram"
IsCheck == last.op = "checkAuthStatus"

\* C1 (as claimed): a loginWithTelegram on a session that is verified, linked
\* to a user and unexpired succeeds: it sets the session cookie and returns
\* {success: true, userId: the session's linked user id}.
C1_LoginSucceedsWhenUsable ==
    (IsLogin /\ Usable(last.arg)) =>
        /\ last.outcome = "ok"
        /\ last.cookie # NoCookie
        /\ last.value = [success |-> TRUE, userId |-> sessions[last.arg].userId]

\* C2: a loginWithTelegram on a session that is unverified, has no linked
\* user or is past its expiresAt fails UNAUTHORIZED and sets no cookie; a
\* cookie is only ever set by a login on a session that is verified, linked
\* and unexpired when it is read.
C2_LoginUnauthorized ==
    /\ (IsLogin /\ HasSession(last.arg) /\ ~Usable(last.arg)) =>
          (last.outcome = "UNAUTHORIZED" /\ last.cookie = NoCookie)
    /\ last.cookie # NoCookie => (IsLogin /\ Usable(last.arg))

\* a verified, linked session is refused because it has expired
C2_Witness ==
    /\ IsLogin /\ HasSession(last.arg) /\ last.outcome = "UNAUTHORIZED"
    /\ sessions[last.arg].verified /\ Linked(last.arg) /\ PastExpiry(last.arg)

\* C3: checkAuthStatus fails NOT_FOUND on a token without a session and
\* UNAUTHORIZED on a session past its expiresAt; on an unexpired session it
\* returns the row's verified flag and linked user id: verified false and no
\* user id while pending, verified true and the user id once the session
\* has been updated to verified and linked.
C3_CheckAuthStatus ==
    IsCheck =>
        IF ~HasSession(last.arg) THEN last.outcome = "NOT_FOUND"
        ELSE IF PastExpiry(last.arg) THEN last.outcome = "UNAUTHORIZED"
        ELSE /\ last.outcome = "ok"
             /\ last.value.verified = sessions[last.arg].verified
             /\ last.value.userId = sessions[last.arg].userId

\* a poll sees the session verified and linked
C3_Witness ==
    /\ IsCheck /\ last.outcome = "ok"
    /\ last.value.verified /\ last.value.userId # NULL

C5_LoginKeepsToken ==
    /\ [](IsLogin /\ last.outcome = "ok"
            => loginWithTelegramReply(last.arg).outcome = "ok")
    /\ [][last'.op = "loginWithTelegram" => sessions' = sessions]_vars

\* a login has succeeded and the session is still verified
C5_Witness ==
    /\ IsLogin /\ last.outcome = "ok"
    /\ HasSession(last.arg) /\ sessions[last.arg].verified

\* C6: no checkAuthStatus call, successful or failing, changes a session,
\* user, video or queue row.
C6_CheckIsPureRead ==
    [][last'.op = "checkAuthStatus" => UNCHANGED tables]_vars

\* a poll has failed on a session that exists
C6_Witness ==
    IsCheck /\ HasSession(last.arg) /\ last.outcome # "ok"

\* C7 (as claimed): checkAuthStatus returns a result for every token that
\* has a session row.
C7_CheckNeverFailsOnSession ==
    (IsCheck /\ HasSession(last.arg)) => last.outcome = "ok"

\* C7 (amended): a checkAuthStatus that fails either found no session
\* (NOT_FOUND) or found one past its expiresAt (UNAUTHORIZED).
C7_CheckFailsOnlyNotFoundOrExpired ==
    (IsCheck /\ last.outcome # "ok") =>
        \/ ~HasSession(last.arg) /\ last.outcome = "NOT_FOUND"
        \/ HasSession(last.arg) /\ PastExpiry(last.arg)
             /\ last.outcome = "UNAUTHORIZED"

\* a poll of an unverified session past its expiresAt fails
C7_Witness ==
    /\ IsCheck /\ HasSession(last.arg) /\ PastExpiry(last.arg)
    /\ ~sessions[last.arg].verified /\ last.outcome = "UNAUTHORIZED"

\* C8 (as claimed): every session with verified = true has a Telegram user
\* id and a linked user id.
C8_VerifiedImpliesLinked ==
    \A t \in DOMAIN sessions :
        sessions[t].verified =>
            (sessions[t].telegramUserId # NULL /\ sessions[t].userId # NULL)

\* how far along pending -> processing -> {completed, failed} a status is
StatusRank(st) ==
    IF st = "pending" THEN 0 ELSE IF st = "processing" THEN 1 ELSE 2

\* C9 (as claimed): in every step every queue entry stays, and its status
\* stays or moves forward along pending -> processing -> {completed,
\* failed}; a completed or failed entry keeps its status.
C9_StatusOnlyForward ==
    [][\A q \in DOMAIN downloadQueue :
          /\ q \in DOMAIN downloadQueue'
          /\ StatusRank(downloadQueue'[q].status)
                >= StatusRank(downloadQueue[q].status)
          /\ StatusRank(downloadQueue[q].status) = 2 =>
                downloadQueue'[q].status = downloadQueue[q].status]_vars

\* C10 (as claimed): the video a queue entry links to exists and is owned
\* by the entry's user.
C10_LinkedVideoSameOwner ==
    \A q \in DOMAIN downloadQueue :
        downloadQueue[q].videoId # NULL =>
            /\ downloadQueue[q].videoId \in DOMAIN videos
            /\ videos[downloadQueue[q].videoId].userId = downloadQueue[q].userId

\* the videos a user may see listed
ReadyVideosOf(u) ==
    { v \in DOMAIN videos : videos[v].userId = u /\ videos[v].status = "ready" }

\* C11: a videos.list result holds rows of the videos table that are owned
\* by the caller and have status ready, holds every such row exactly once,
\* and is ordered by createdAt, newest first.
C11_ListOwnReadyNewestFirst ==
    (last.op = "videos.list" /\ last.outcome = "ok") =>
        LET result == last.value
        IN  /\ \A i \in DOMAIN result :
                  /\ result[i].id \in ReadyVideosOf(last.arg)
                  /\ result[i] = videos[result[i].id]
            /\ \A v \in ReadyVideosOf(last.arg) :
                  Cardinality({ i \in DOMAIN result : result[i].id = v }) = 1
            /\ \A i, j \in DOMAIN result :
                  i < j => result[i].createdAt >= result[j].createdAt

\* the caller owns a video that is ready and one that is not, and is shown
\* the ready one only
C11_Witness ==
    /\ last.op = "videos.list" /\ last.outcome = "ok"
    /\ Len(last.value) = 1
    /\ \E v \in DOMAIN videos :
          videos[v].userId = last.arg /\ videos[v].status # "ready"

\* a video id that is not a video of user u: no such video, or another
\* user's
NotAVideoOf(u, v) == v \notin DOMAIN videos \/ videos[v].userId # u
IsGetOrDelete(l) == l.op \in { "videos.get", "videos.delete" }

\* C12: a videos.get or videos.delete by a signed-in caller on an id that is
\* not a video of theirs fails NOT_FOUND, returns nothing and leaves every
\* table as it was, whether the id belongs to another user's video or to no
\* video at all; so the two cases cannot be told apart and the other user's
\* video stays.
C12_NotOwnedIsNotFound ==
    [][(/\ IsGetOrDelete(last')
        /\ last'.arg.ctxUser # NULL
        /\ NotAVideoOf(last'.arg.ctxUser, last'.arg.videoId))
          => /\ last'.outcome = "NOT_FOUND"
             /\ last'.value = NULL
             /\ UNCHANGED tables]_vars

\* a delete of another user's video has failed NOT_FOUND and the video is
\* still there
C12_Witness ==
    /\ last.op = "videos.delete" /\ last.outcome = "NOT_FOUND"
    /\ last.arg.videoId \in DOMAIN videos
    /\ videos[last.arg.videoId].userId # last.arg.ctxUser

\* the step is a mutation of a video made on behalf of user u: a videos.delete
\* called by u, or an updateVideo, which takes no user and so is the same
\* call on whoever's behalf it is made
MutatesVideoFor(u) ==
    \/ last'.op = "videos.delete" /\ last'.arg.ctxUser = u
    \/ last'.op = "updateVideo"

\* C13 (as claimed): a video update or delete made on behalf of a user
\* leaves every video owned by another user in place and as it was.
C13_MutationsOwnershipScoped ==
    [][\A u \in DOMAIN users :
          MutatesVideoFor(u) =>
              \A v \in DOMAIN videos :
                  videos[v].userId # u =>
                      (v \in DOMAIN videos' /\ videos'[v] = videos[v])]_vars

\* a string that starts with a scheme and a colon
HasScheme(s) ==
    \E i \in 2..Len(s) :
        s[i] = ":" /\ \A k \in 1..(i - 1) : s[k] \notin { ":", "/", "?", "#" }
IsRequest(l) == l.op = "requestDownload"

\* C14: a videos.requestDownload whose youtubeUrl does not start with a
\* scheme (so is not a URL) fails and leaves every table as it was; called
\* by a signed-in user it fails as BAD_REQUEST, the validation error.
C14_NonUrlRejected ==
    [][(IsRequest(last') /\ ~HasScheme(last'.arg.youtubeUrl))
          => /\ last'.outcome # "ok"
             /\ last'.arg.ctxUser # NULL => last'.outcome = "BAD_REQUEST"
             /\ UNCHANGED tables]_vars

\* a signed-in user's request for "yt.be/a" has failed validation while the
\* database was there to store it
C14_Witness ==
    /\ IsRequest(last) /\ last.outcome = "BAD_REQUEST"
    /\ last.arg.ctxUser \in DOMAIN users
    /\ ~HasScheme(last.arg.youtubeUrl)

\* the queue entry q is in the result of a getPendingDownloads
Listed(result, q) == \E i \in DOMAIN result : result[i].id = q
IsPending(q) == downloadQueue[q].status = "pending"
IsUpdate(l) == l.op = "updateDownloadRequest"
Completes(updates) ==
    /\ DOMAIN updates = { "status", "videoId" }
    /\ updates.status = "completed"

\* C15: a successful videos.requestDownload adds exactly one queue entry,
\* with status pending, and returns that entry's id with status "pending";
\* an entry stays pending until an updateDownloadRequest, and every
\* getPendingDownloads result holds every entry that is pending; a
\* successful updateDownloadRequest of an entry with {status: completed,
\* videoId: V} leaves it completed and linked to V, and getDownloadRequest
\* returns the entry as stored.
C15_RequestLifecycle ==
    /\ [][(IsRequest(last') /\ last'.outcome = "ok") =>
            LET id == last'.value.requestId
            IN  /\ id \notin DOMAIN downloadQueue
                /\ DOMAIN downloadQueue' = DOMAIN downloadQueue \cup { id }
                /\ \A q \in DOMAIN downloadQueue :
                      downloadQueue'[q] = downloadQueue[q]
                /\ downloadQueue'[id].status = "pending"
                /\ last'.value.status = "pending"]_vars
    /\ [][\A q \in DOMAIN downloadQueue :
            (IsPending(q) /\ ~IsUpdate(last')) =>
                (q \in DOMAIN downloadQueue' /\ IsPending(q)')]_vars
    /\ [](last.op = "getPendingDownloads" =>
            \A q \in DOMAIN downloadQueue :
                IsPending(q) => Listed(last.value, q))
    /\ [][(/\ IsUpdate(last') /\ last'.outcome = "ok"
           /\ Completes(last'.arg.updates)
           /\ last'.arg.requestId \in DOMAIN downloadQueue) =>
            LET q == last'.arg.requestId
            IN  /\ downloadQueue'[q].status = "completed"
                /\ downloadQueue'[q].videoId = last'.arg.updates.videoId]_vars
    /\ [](last.op = "getDownloadRequest" /\ last.arg \in DOMAIN downloadQueue
            => last.value = downloadQueue[last.arg])

\* a get of an entry shows it completed and linked to a video
C15_Witness ==
    /\ last.op = "getDownloadRequest"
    /\ last.value.id # NULL
    /\ last.value.status = "completed"
    /\ last.value.videoId \in DOMAIN videos

\* C16: a getPendingDownloads result holds rows of the queue that have
\* status pending, holds every such row exactly once, and is ordered by
\* createdAt, oldest first.
C16_PendingOldestFirst ==
    last.op = "getPendingDownloads" =>
        LET result == last.value
        IN  /\ \A i \in DOMAIN result :
                  /\ result[i].id \in DOMAIN downloadQueue
                  /\ result[i] = downloadQueue[result[i].id]
                  /\ result[i].status = "pending"
            /\ \A q \in DOMAIN downloadQueue :
                  IsPending(q) =>
                      Cardinality({ i \in DOMAIN result : result[i].id = q }) = 1
            /\ \A i, j \in DOMAIN result :
                  i < j => result[i].createdAt <= result[j].createdAt

\* two pending entries of different age are listed, the older first
C16_Witness ==
    /\ last.op = "getPendingDownloads"
    /\ Len(last.value) = 2
    /\ last.value[1].createdAt < last.value[2].createdAt

\* who called a procedure of the videos router
Caller(l) == IF l.op = "videos.list" THEN l.arg ELSE l.arg.ctxUser

\* C17: a videos.list or videos.requestDownload called without a signed-in
\* user fails UNAUTHORIZED and leaves every table as it was.
C17_SignedInOnly ==
    [][(last'.op \in { "videos.list", "requestDownload" }
          /\ Caller(last') = NULL)
          => (last'.outcome = "UNAUTHORIZED" /\ UNCHANGED tables)]_vars

\* a request with a well-formed URL has been refused for want of a user,
\* with entries already queued
C17_Witness ==
    /\ IsRequest(last) /\ last.outcome = "UNAUTHORIZED"
    /\ last.arg.ctxUser = NULL /\ HasScheme(last.arg.youtubeUrl)
    /\ downloadQueue # <<>>

\* a generateAuthToken call has returned a token
IsIssue(l) == l.op = "generateAuthToken" /\ l.outcome = "ok"

\* C18: the token a generateAuthToken returns is the authToken of no
\* session row there was before the call and of exactly one new row after
\* it, and no session row is ever removed; so the tokens any two calls
\* return differ, and no two session rows have the same authToken.
C18_TokensDiffer ==
    /\ [][IsIssue(last') =>
            /\ last'.value.authToken \notin DOMAIN sessions
            /\ DOMAIN sessions' = DOMAIN sessions \cup { last'.value.authToken }
            /\ Cardinality(DOMAIN sessions') = Cardinality(DOMAIN sessions) + 1]_vars
    /\ [][DOMAIN sessions \subseteq DOMAIN sessions']_vars
    /\ [](\A t, u \in DOMAIN sessions :
            sessions[t].authToken = sessions[u].authToken =>
                sessions[t].id = sessions[u].id)

\* a second token has been issued
C18_Witness ==
    IsIssue(last) /\ Cardinality(DOMAIN sessions) = 2

\* C19: the session row a generateAuthToken creates is the row of the
\* returned token, is new, and has verified = false, no Telegram user id,
\* no linked user id, and an expiresAt one unit of time (10 minutes) after
\* its createdAt, the time of the call.
C19_StartsIssued ==
    [][IsIssue(last') =>
          LET t == last'.value.authToken
          IN  /\ t \notin DOMAIN sessions
              /\ t \in DOMAIN sessions'
              /\ sessions'[t].authToken = t
              /\ sessions'[t].verified = FALSE
              /\ sessions'[t].telegramUserId = NULL
              /\ sessions'[t].userId = NULL
              /\ sessions'[t].createdAt = now
              /\ sessions'[t].expiresAt = sessions'[t].createdAt + 1]_vars

\* a token has been issued some time after the start
C19_Witness ==
    /\ IsIssue(last) /\ now > 0
    /\ sessions[last.value.authToken].createdAt = now
    /\ ~sessions[last.value.authToken].verified

\* an upsertUser call on the non-empty identity openId has returned
IsUpsert(l, openId) ==
    /\ l.op = "upsertUser" /\ l.outcome = "ok"
    /\ l.arg.openId = openId /\ openId # EmptyOpenId
UserColumns == { "name", "email", "loginMethod", "role", "lastSignedIn" }

\* C20 (as claimed): after an upsertUser on a non-empty openId,
\* getUserByOpenId returns a user in which every supplied field has the
\* supplied value and every field left out has the value it had before the
\* upsert.
C20_UpsertThenGet ==
    [][\A openId \in Identities : IsUpsert(last', openId) =>
          LET user == last'.arg
              before == getUserByOpenId(openId)
              after == getUserByOpenId(openId)'
          IN  /\ after # Undefined
              /\ \A f \in UserColumns :
                    IF f \in DOMAIN user THEN after[f] = user[f]
                    ELSE before # Undefined => after[f] = before[f]]_vars

\* the call writes no column of an existing row: nothing but the openId is
\* given, and the identity is not the owner's
WritesNothing(user) ==
    DOMAIN user \subseteq { "openId" } /\ user.openId # OwnerOpenId

\* C20 (amended): after an upsertUser on a non-empty openId with the store
\* available, getUserByOpenId returns the user of that openId, in which
\* every supplied field has the supplied value (a null name clears it); a
\* text field left out is as before (null for a new user); a role left out
\* is admin for the owner's identity and otherwise as before (user for a
\* new user); a lastSignedIn left out is the current time for a new user
\* and for a call that writes nothing, and otherwise as before; every other
\* user is as before. With no store available nothing is stored and
\* getUserByOpenId returns no user.
C20_UpsertThenGetAmended ==
    [][\A openId \in Identities : IsUpsert(last', openId) =>
          LET user == last'.arg
              before == getUserByOpenId(openId)
              after == getUserByOpenId(openId)'
              new == before = Undefined
          IN  IF ~dbAvailable THEN after = Undefined /\ users' = users
              ELSE
              /\ after # Undefined
              /\ after.openId = user.openId
              /\ \A f \in { "name", "email", "loginMethod" } :
                    after[f] = IF f \in DOMAIN user THEN user[f]
                               ELSE IF new THEN NONE ELSE before[f]
              /\ after.role = IF "role" \in DOMAIN user THEN user.role
                              ELSE IF user.openId = OwnerOpenId THEN "admin"
                              ELSE IF new THEN "user" ELSE before.role
              /\ after.lastSignedIn =
                    IF "lastSignedIn" \in DOMAIN user THEN user.lastSignedIn
                    ELSE IF new \/ WritesNothing(user) THEN now
                    ELSE before.lastSignedIn
              /\ ~new => after.id = before.id
              /\ \A i \in DOMAIN users :
                    users[i].openId # user.openId => users'[i] = users[i]]_vars

\* an upsert with a null name and no lastSignedIn has cleared the name of a
\* user and kept the time they last signed in
C20_Witness ==
    /\ IsUpsert(last, last.arg.openId) /\ dbAvailable
    /\ "name" \in DOMAIN last.arg /\ last.arg.name = NONE
    /\ "lastSignedIn" \notin DOMAIN last.arg
    /\ getUserByOpenId(last.arg.openId).name = NONE
    /\ getUserByOpenId(last.arg.openId).lastSignedIn < now

\* an upsertUser call on identity openId has stored something
Stored(l, openId) == IsUpsert(l, openId) /\ dbAvailable

\* C21 (as claimed): after an upsertUser on the owner's openId the stored
\* role is admin, whatever role was supplied; after an upsertUser that
\* inserts a user of another openId the role is the supplied one, or user
\* if none was supplied.
C21_OwnerIsAdmin ==
    [][\A openId \in Identities : Stored(last', openId) =>
          LET user == last'.arg
              before == getUserByOpenId(openId)
              after == getUserByOpenId(openId)'
          IN  /\ openId = OwnerOpenId => after.role = "admin"
              /\ (openId # OwnerOpenId /\ before = Undefined) =>
                    after.role = IF "role" \in DOMAIN user THEN user.role
                                 ELSE "user"]_vars

\* C22 (as claimed): an upsertUser on an existing user that supplies no
\* lastSignedIn and leaves every other column of the row as it was sets
\* lastSignedIn to the current time.
C22_EveryUpsertLeavesTrace ==
    [][\A openId \in Identities : Stored(last', openId) =>
          LET user == last'.arg
              before == getUserByOpenId(openId)
              after == getUserByOpenId(openId)'
          IN  (/\ before # Undefined
               /\ "lastSignedIn" \notin DOMAIN user
               /\ \A f \in UserColumns \ { "lastSignedIn" } :
                     after[f] = before[f])
                => after.lastSignedIn = now]_vars

\* an upsertUser call without an openId, or with the empty one
NoIdentity(l) ==
    l.op = "upsertUser"
        /\ ("openId" \notin DOMAIN l.arg \/ l.arg.openId = EmptyOpenId)

\* C23: an upsertUser call with a missing or empty openId throws and leaves
\* every table as it was, with or without a database handle.
C23_NoIdentityFails ==
    [][NoIdentity(last') => (last'.outcome = "ERROR" /\ UNCHANGED tables)]_vars

\* a call without identity has failed with no database to be had
C23_Witness ==
    NoIdentity(last) /\ last.outcome = "ERROR" /\ ~dbAvailable

\* C24 (as claimed): an updateTelegramSession whose token names no session
\* fails, and no session row changes.
C24_UnknownTokenFails ==
    [][(last'.op = "updateTelegramSession" /\ last'.arg \notin DOMAIN sessions)
          => (last'.outcome # "ok" /\ sessions' = sessions)]_vars

\* C28 (as claimed): the userId a successful loginWithTelegram returns is the
\* id of the user whose openId is put into the session cookie.
C28_ReturnedUserIsCredentialUser ==
    (IsLogin /\ last.outcome = "ok") =>
        \E id \in DOMAIN users :
            /\ users[id].openId = last.cookie.openId
            /\ last.value.userId = id

\* the calls that write to the store (a session is created by
\* generateAuthToken, a queue entry by requestDownload), and the store's reads
StoreWrites ==
    { "upsertUser", "generateAuthToken", "updateTelegramSession",
      "createVideo", "updateVideo", "deleteVideo", "requestDownload",
      "updateDownloadRequest" }
StoreReads == { "getDownloadRequest", "getPendingDownloads" }

\* C25 (as claimed): without a database handle every write fails with an
\* error and every read returns nothing (no row, or the empty list).
C25_WritesFailLoudly ==
    ~dbAvailable =>
        /\ last.op \in StoreWrites => last.outcome # "ok"
        /\ last.op \in StoreReads =>
              (last.outcome = "ok" /\ last.value \in { Undefined, <<>> })

\* C26: no two users rows ever have the same openId, and a row, once there,
\* stays there with the openId it has. Every upsertUser is one
\* INSERT ... ON DUPLICATE KEY UPDATE statement, so concurrent calls are
\* these steps in some order.
C26_IdentityUniqueAndFixed ==
    /\ [](\A i, j \in DOMAIN users :
            users[i].openId = users[j].openId => i = j)
    /\ [][\A i \in DOMAIN users :
            i \in DOMAIN users' /\ users'[i].openId = users[i].openId]_vars

\* with two users in the directory, an upsert has been stored for the
\* identity of the first
C26_Witness ==
    /\ \E openId \in Identities :
          Stored(last, openId) /\ getUserByOpenId(openId).id = 1
    /\ Cardinality(DOMAIN users) = MaxUsers

\* C29: a successful videos.requestDownload adds one queue entry, owned by
\* the caller, whatever the input holds; the other entries stay as they are.
C29_EntryOwnedByCaller ==
    [][(last'.op = "requestDownload" /\ last'.outcome = "ok") =>
          /\ DOMAIN downloadQueue' =
                DOMAIN downloadQueue \cup { last'.value.requestId }
          /\ last'.value.requestId \notin DOMAIN downloadQueue
          /\ downloadQueue'[last'.value.requestId].userId = last'.arg.ctxUser
          /\ \A q \in DOMAIN downloadQueue :
                downloadQueue'[q] = downloadQueue[q]]_vars

\* both users have an entry in the queue
C29_Witness ==
    /\ last.op = "requestDownload" /\ last.outcome = "ok"
    /\ \A u \in { users[i].id : i \in DOMAIN users } :
          \E q \in DOMAIN downloadQueue : downloadQueue[q].userId = u
    /\ Cardinality(DOMAIN users) > 1

\* the worker w, having picked an entry, makes its claim
Claims(w) == pc[w].at = "picked" /\ pc'[w] # pc[w]

\* C27: with a database handle, the claim of a worker goes through whatever
\* the status of the entry it picked has become: the worker holds the entry
\* as claimed and the entry is processing, also when the other worker has
\* claimed it in between. Nothing makes the second claim fail.
C27_ClaimAlwaysGoesThrough ==
    [][\A w \in Workers : (Claims(w) /\ dbAvailable) =>
          /\ pc'[w] = [at |-> "claimed", requestId |-> pc[w].requestId]
          /\ downloadQueue'[pc[w].requestId].status = "processing"]_vars

\* both workers have claimed the same entry
C27_Witness ==
    \E q \in DOMAIN downloadQueue :
        \A w \in Workers : pc[w] = [at |-> "claimed", requestId |-> q]

\* C30 (as claimed): a videos.delete answers {success: true} only when it
\* has removed the video, which nothing brings back, so at most once for a
\* video; a videos.delete of a signed-in caller on a video that is gone
\* fails NOT_FOUND.
C30_OneDeleteSucceeds ==
    [][last'.op = "videos.delete" =>
          LET videoId == last'.arg.videoId
          IN  /\ last'.outcome = "ok" =>
                    (videoId \in DOMAIN videos /\ videoId \notin DOMAIN videos')
              /\ (videoId \notin DOMAIN videos /\ last'.arg.ctxUser # NULL) =>
                    last'.outcome = "NOT_FOUND"]_vars

=============================================================================
